---- MODULE Spec2Model ----
(***************************************************************************)
(* A model of the raft-test cluster harness (package rafttest):            *)
(* Cluster() building n test raft nodes over loopback transports, applying *)
(* knobs, instantiating one raft.Raft per FSM and handing back a cleanup   *)
(* closure; Shutdown(); Other(); connectLoobackTransports() and            *)
(* populatePeerStores().                                                   *)
(* The control facility used by the tests (Disconnect, Reconnect and the    *)
(* blocking waits) follows in sections of its own.                         *)
(*                                                                         *)
(* Slices and the cluster.nodes map are functions over 0..n-1, as in Go.   *)
(* Each loop iteration of the source is one step of the model; the         *)
(* variable pc is the position in Cluster() or in the cleanup closure.     *)
(***************************************************************************)
EXTENDS Integers, Sequences, FiniteSets, TLC

\* Largest number of FSMs handed to Cluster().
MaxN == 3

\* Largest number of knobs handed to Cluster().
MaxKnobs == 2

\* Largest number of Disconnect and Reconnect calls of one test.
MaxOps == 3

\* Largest value of a counter the engine exposes (applied index, snapshots,
\* restores).
MaxCount == 2

\* Largest timeout of a wait, in poll intervals.
MaxTimeout == 2

VARIABLES
    pc,        \* position in Cluster() / the cleanup closure
    fsms,      \* the fsms argument: 0..n-1 -> FSM
    knobs,     \* the knobs argument: 0..m-1 -> Knob
    nodes,     \* cluster.nodes: index -> node (Config, Peers, Transport)
    stores,    \* the stores slice: position -> node whose Peers it is
    transports,\* the transports slice: position -> node whose Transport it is
    servers,   \* cluster bookkeeping written by the Servers knob
    rafts,     \* the rafts slice: 0..n-1 -> raft handle or Nil
    futures,   \* Shutdown's futures slice: index -> future
    i,         \* outer loop index
    j,         \* inner loop index
    events,    \* the calls made so far, in order: <<kind, index>>
    others,    \* the last two Other() calls of the test body, each
               \* <<argument, result>>; the window ends with the test body
    wait,      \* the blocking wait of the control facility in progress
    engine     \* what the raft engine exposes to that wait: the leader and
               \* the counter it polls (applied index, snapshots, restores)

vars == <<pc, fsms, knobs, nodes, stores, transports, servers, rafts,
          futures, i, j, events, others, wait, engine>>

\* The state of the control facility.
control == <<wait, engine>>

\* The local slices of Cluster handed to the wiring functions.
slices == <<stores, transports>>

Nil == [fsm |-> "nil", node |-> -1, addr |-> "", state |-> "nil"]

\* No wait in progress.
NoWait ==
    [kind |-> "none", node |-> Nil.node, target |-> 0, timeout |-> 0,
     elapsed |-> 0, seen |-> 0, pc |-> "idle"]

\* A cluster just started: no leader, nothing applied.
NoEngine == [leader |-> Nil.node, counter |-> 0]

\* A slice element not yet assigned.
NoNode == Nil.node

FSMs == {"fsmA", "fsmB"}

N == Cardinality(DOMAIN fsms)

\* The node indexes of the cluster.
Indexes == 0 .. N - 1

\* len() of a slice.
Size(slice) == Cardinality(DOMAIN slice)

M == Cardinality(DOMAIN knobs)

\* strconv.Itoa for non-negative integers.
Digits == <<"0", "1", "2", "3", "4", "5", "6", "7", "8", "9">>

RECURSIVE Itoa(_)
Itoa(x) ==
    IF x < 10 THEN Digits[x + 1]
    ELSE Itoa(x \div 10) \o Digits[(x % 10) + 1]

\* The knobs of the package: Servers(indexes...) and Config(f).
ServersKnob(indexes) == [kind |-> "Servers", indexes |-> indexes]

ConfigKnob == [kind |-> "Config", indexes |-> {}]

Knobs == {ServersKnob({s}) : s \in 0 .. MaxN - 1} \cup {ConfigKnob}

\* newNode: default dependencies for a single raft node.
newNode(addr) ==
    [Config    |-> [HeartbeatTimeout   |-> 50,
                    ElectionTimeout    |-> 50,
                    LeaderLeaseTimeout |-> 50,
                    CommitTimeout      |-> 25,
                    SnapshotThreshold  |-> 8192,
                    TrailingLogs       |-> 10240],
     Peers     |-> <<>>,
     Transport |-> [addr |-> addr, peers |-> {}]]

\* Connect dropping a registration that is already there.
ConnectToggle(transport, peer, trans) ==
    [transport EXCEPT !.peers =
        IF \E p \in @ : p[1] = peer
        THEN {p \in @ : p[1] # peer}
        ELSE @ \cup {<<peer, trans>>}]

\* InmemTransport.Connect: peers[peer] = trans, on a map kept as a set of
\* <<address, handle>> pairs with one pair per address.
Connect(transport, peer, trans) ==
    [transport EXCEPT !.peers =
        {p \in @ : p[1] # peer} \cup {<<peer, trans>>}]

LocalAddr(transport) == transport.addr

\* The slices of length n, as functions over 0..n-1.
Slices(n, S) == UNION {[0 .. k - 1 -> S] : k \in 0 .. n}

Log(kind, idx) == <<kind, idx>>

\* The calls of the given kind, in the order they were made.
CallSeq(kind) == SelectSeq(events, LAMBDA e : e[1] = kind)

\* The calls of the given kind went to indexes 0, 1, 2, ... in this order.
Ascending(kind) ==
    \A x \in 1 .. Len(CallSeq(kind)) : CallSeq(kind)[x][2] = x - 1

\* Position of the first call of the given kind (0 when there is none).
FirstCall(kind) ==
    IF \E x \in 1 .. Len(events) : events[x][1] = kind
    THEN CHOOSE x \in 1 .. Len(events) :
            /\ events[x][1] = kind
            /\ \A y \in 1 .. x - 1 : events[y][1] # kind
    ELSE 0

\* Position of the last call of the given kind (0 when there is none).
LastCall(kind) ==
    IF \E x \in 1 .. Len(events) : events[x][1] = kind
    THEN CHOOSE x \in 1 .. Len(events) :
            /\ events[x][1] = kind
            /\ \A y \in x + 1 .. Len(events) : events[y][1] # kind
    ELSE 0

\* The next (i, j) of a doubly nested range loop over n elements.
NextI(n) == IF j + 1 < n THEN i ELSE i + 1

NextJ(n) == IF j + 1 < n THEN j + 1 ELSE 0

Init ==
    /\ pc = "build"
    /\ fsms \in Slices(MaxN, FSMs)
    /\ knobs \in Slices(MaxKnobs, Knobs)
    /\ nodes = <<>>
    /\ stores = [x \in DOMAIN fsms |-> NoNode]
    /\ transports = [x \in DOMAIN fsms |-> NoNode]
    /\ servers = DOMAIN fsms
    /\ rafts = <<>>
    /\ futures = <<>>
    /\ i = 0
    /\ j = 0
    /\ events = <<>>
    /\ others = <<>>
    /\ wait = NoWait
    /\ engine = NoEngine

\* Cluster, lines 46-47: the transports are connected before the peer stores
\* are populated.
AfterBuildPopulate == "populate"

AfterBuild == "connect"

\* Cluster, lines 38-44: one node per FSM, with address strconv.Itoa(i).
BuildNodes ==
    /\ pc = "build"
    /\ IF i < N
       THEN /\ nodes' = (i :> newNode(Itoa(i))) @@ nodes
            /\ transports' = [transports EXCEPT ![i] = i]
            /\ stores' = [stores EXCEPT ![i] = i]
            /\ i' = i + 1
            /\ pc' = pc
       ELSE /\ pc' = AfterBuild
            /\ i' = 0
            /\ UNCHANGED <<nodes, stores, transports>>
    /\ UNCHANGED <<control, fsms, knobs,
                   servers, rafts, futures, j, events, others>>

\* connectLoobackTransports, line 164: a transport is not connected to itself.
ShouldConnectAlways(a, b) == TRUE

ShouldConnect(a, b) == a # b

\* ConnectPair registering b with a only.
ConnectPairOneWay(ns, a, b) ==
    [ns EXCEPT ![a].Transport = Connect(@, LocalAddr(ns[b].Transport), b)]

\* connectLoobackTransports, lines 165-166: both directions of one pair.
ConnectPair(ns, a, b) ==
    LET first == [ns EXCEPT ![a].Transport =
                    Connect(@, LocalAddr(ns[b].Transport), b)]
    IN  [first EXCEPT ![b].Transport =
            Connect(@, LocalAddr(first[a].Transport), a)]

\* connectLoobackTransports, one iteration of the inner loop.
ConnectStep ==
    /\ pc = "connect"
    /\ IF i < Size(transports)
       THEN /\ nodes' = IF ShouldConnect(i, j)
                        THEN ConnectPair(nodes, transports[i], transports[j])
                        ELSE nodes
            /\ i' = NextI(Size(transports))
            /\ j' = NextJ(Size(transports))
            /\ pc' = pc
       ELSE /\ pc' = "populate"
            /\ i' = 0
            /\ j' = 0
            /\ nodes' = nodes
    /\ UNCHANGED <<control, slices, fsms, knobs,
                   servers, rafts, futures, events, others>>

\* populatePeerStores, lines 180-182: a node is not its own peer.
SkipPeerNever(a, b) == FALSE

SkipPeer(a, b) == a = b

\* populatePeerStores, lines 184-194: StaticPeers.Peers, append, SetPeers.
AddPeer(ns, a, b) ==
    [ns EXCEPT ![a].Peers = Append(@, LocalAddr(ns[b].Transport))]

\* populatePeerStores, line 174: the two slices must have the same length.
LengthMismatchIgnored(ss, ts) == FALSE

LengthMismatch(ss, ts) == Size(ss) # Size(ts)

\* populatePeerStores: the panic of lines 174-176, or one iteration of the
\* inner loop.
PopulateStep ==
    /\ pc = "populate"
    /\ IF LengthMismatch(stores, transports)
       THEN /\ pc' = "panic"
            /\ UNCHANGED <<nodes, i, j>>
       ELSE IF i < Size(stores)
       THEN /\ nodes' = IF SkipPeer(i, j)
                        THEN nodes
                        ELSE AddPeer(nodes, stores[i], transports[j])
            /\ i' = NextI(Size(transports))
            /\ j' = NextJ(Size(transports))
            /\ pc' = pc
       ELSE /\ pc' = "init"
            /\ i' = 0
            /\ j' = 0
            /\ nodes' = nodes
    /\ UNCHANGED <<control, slices, fsms, knobs,
                   servers, rafts, futures, events, others>>

\* Servers knob, init: records the nodes that are part of the cluster.
ServersInit(knob) == knob.indexes \cap DOMAIN fsms

\* Config knob, init: applies the configuration function to every node.
ConfigInit(ns) ==
    [x \in DOMAIN ns |->
        [ns[x] EXCEPT !.Config.SnapshotThreshold = 4,
                      !.Config.TrailingLogs = 1]]

\* Cluster, line 49: the knobs are initialized in the order supplied.
InitIndexReversed(k) == M - 1 - k

InitIndex(k) == k

\* Cluster, lines 49-51: knob.init(cluster), one knob per step.
KnobInitStep ==
    /\ pc = "init"
    /\ IF i < M
       THEN /\ servers' = IF knobs[InitIndex(i)].kind = "Servers"
                          THEN ServersInit(knobs[InitIndex(i)])
                          ELSE servers
            /\ nodes' = IF knobs[InitIndex(i)].kind = "Config"
                        THEN ConfigInit(nodes)
                        ELSE nodes
            /\ events' = Append(events, Log("init", InitIndex(i)))
            /\ i' = i + 1
            /\ pc' = pc
            /\ rafts' = rafts
       ELSE /\ pc' = "newRaft"
            /\ i' = 0
            /\ rafts' = [x \in DOMAIN fsms |-> Nil]
            /\ UNCHANGED <<servers, nodes, events>>
    /\ UNCHANGED <<control, slices, fsms, knobs, futures, j, others>>

\* newRaft, lines 148-158: a running raft.Raft over the FSM and the node's
\* dependencies (idx is the node's key in cluster.nodes).
newRaftFirstFsm(fsm, idx) ==
    [fsm |-> fsms[0], node |-> idx,
     addr |-> LocalAddr(nodes[idx].Transport), state |-> "running"]

newRaft(fsm, idx) ==
    [fsm |-> fsm, node |-> idx,
     addr |-> LocalAddr(nodes[idx].Transport), state |-> "running"]

\* Cluster, lines 56-58: t.Fatalf ends the calling goroutine.
OnNewRaftErrorContinue == "newRaft"

OnNewRaftError == "setupFatal"

\* Cluster, lines 53-60 and 69: newRaft for each FSM, then the return.
NewRaftStep ==
    /\ pc = "newRaft"
    /\ IF i < N
       THEN \E ok \in BOOLEAN :
               IF ok
               THEN /\ rafts' = [rafts EXCEPT ![i] = newRaft(fsms[i], i)]
                    /\ events' = Append(events, Log("newRaft", i))
                    /\ i' = i + 1
                    /\ pc' = pc
               ELSE /\ events' = Append(Append(events, Log("newRaft", i)),
                                        Log("FatalfStart", i))
                    /\ pc' = OnNewRaftError
                    /\ i' = IF pc' = "newRaft" THEN i + 1 ELSE i
                    /\ rafts' = rafts
       ELSE /\ pc' = "returned"
            /\ i' = 0
            /\ UNCHANGED <<rafts, events>>
    /\ UNCHANGED <<control, slices, fsms, knobs,
                   nodes, servers, futures, j, others>>

\* Other, lines 97-104: the range loop from index jj on.
RECURSIVE OtherFrom(_, _, _)
OtherFrom(rs, x, jj) ==
    IF jj >= Cardinality(DOMAIN rs) THEN -1
    ELSE IF x # jj THEN jj
    ELSE OtherFrom(rs, x, jj + 1)

\* Other scanning from the last index down.
OtherLast(rs, x) ==
    LET cand == {jj \in 0 .. Cardinality(DOMAIN rs) - 1 : jj # x}
    IN  IF cand = {} THEN -1 ELSE CHOOSE jj \in cand : \A y \in cand : y <= jj

\* Other returning index 0 when no node differs.
OtherDefaultZero(rs, x) ==
    IF OtherFrom(rs, x, 0) = -1 THEN 0 ELSE OtherFrom(rs, x, 0)

Other(rs, x) == OtherFrom(rs, x, 0)

\* A call of Other on the handles Cluster returned.
CallOther ==
    /\ pc = "returned"
    /\ \E x \in -1 .. MaxN :
          others' = IF Len(others) < 2
                    THEN Append(others, <<x, Other(rafts, x)>>)
                    ELSE <<others[2], <<x, Other(rafts, x)>>>>
    /\ UNCHANGED <<pc, control, slices, fsms, knobs,
                   nodes, servers, rafts, futures, i, j,
                   events>>

\* The test calls the cleanup closure, lines 62-63; Shutdown, line 82.
InvokeCleanup ==
    /\ pc = "returned"
    /\ pc' = "shutdown"
    /\ i' = 0
    /\ futures' = [x \in DOMAIN rafts |-> "nil"]
    /\ events' = Append(events, Log("cleanupClosure", N))
    /\ others' = <<>>
    /\ UNCHANGED <<control, slices, fsms, knobs, nodes, servers, rafts, j>>

\* Shutdown with the future examined inside the first loop.
ShutdownRequestFailFast ==
    /\ pc = "shutdown"
    /\ IF i < N
       THEN \E err \in BOOLEAN :
               /\ rafts' = [rafts EXCEPT ![i].state = "shutdown"]
               /\ futures' = [futures EXCEPT
                                ![i] = IF err THEN "error" ELSE "done"]
               /\ events' = IF err
                            THEN events \o <<Log("Shutdown", i),
                                             Log("Error", i),
                                             Log("FatalfShutdown", i)>>
                            ELSE events \o <<Log("Shutdown", i),
                                             Log("Error", i)>>
               /\ i' = IF err THEN i ELSE i + 1
               /\ pc' = IF err THEN "shutdownFatal" ELSE pc
       ELSE /\ pc' = "cleanup"
            /\ i' = 0
            /\ UNCHANGED <<rafts, futures, events>>
    /\ UNCHANGED <<control, slices, fsms, knobs, nodes, servers, j, others>>

\* Shutdown, lines 83-85: r.Shutdown() on every raft node.
ShutdownRequest ==
    /\ pc = "shutdown"
    /\ IF i < N
       THEN /\ rafts' = [rafts EXCEPT ![i].state = "shutdown"]
            /\ futures' = [futures EXCEPT ![i] = "pending"]
            /\ events' = Append(events, Log("Shutdown", i))
            /\ i' = i + 1
            /\ pc' = pc
       ELSE /\ pc' = "future"
            /\ i' = 0
            /\ UNCHANGED <<rafts, futures, events>>
    /\ UNCHANGED <<control, slices, fsms, knobs, nodes, servers, j, others>>

\* Shutdown, line 86: the futures are examined by ascending index.
FutureIndexReversed(k) == N - 1 - k

FutureIndex(k) == k

\* Shutdown, lines 87-89: t.Fatalf ends the calling goroutine.
OnShutdownErrorContinue == "future"

OnShutdownError == "shutdownFatal"

\* Shutdown, lines 86-90: future.Error() on every future, t.Fatalf on the
\* first error.
FutureError ==
    /\ pc = "future"
    /\ IF i < N
       THEN \E err \in BOOLEAN :
               IF err
               THEN /\ futures' = [futures EXCEPT ![FutureIndex(i)] = "error"]
                    /\ events' = Append(Append(events,
                                               Log("Error", FutureIndex(i))),
                                        Log("FatalfShutdown", FutureIndex(i)))
                    /\ pc' = OnShutdownError
                    /\ i' = IF pc' = "future" THEN i + 1 ELSE i
               ELSE /\ futures' = [futures EXCEPT ![FutureIndex(i)] = "done"]
                    /\ events' = Append(events, Log("Error", FutureIndex(i)))
                    /\ pc' = pc
                    /\ i' = i + 1
       ELSE /\ pc' = "cleanup"
            /\ i' = 0
            /\ UNCHANGED <<futures, events>>
    /\ UNCHANGED <<control, slices, fsms, knobs,
                   nodes, servers, rafts, j, others>>

\* Cluster, line 64: the knobs are cleaned up in the order supplied.
CleanupIndexReversed(k) == M - 1 - k

CleanupIndex(k) == k

\* Cluster, lines 64-66: knob.cleanup(cluster), one knob per step.
KnobCleanupStep ==
    /\ pc = "cleanup"
    /\ IF i < M
       THEN /\ events' = Append(events, Log("cleanup", CleanupIndex(i)))
            /\ i' = i + 1
            /\ pc' = pc
       ELSE /\ pc' = "closed"
            /\ i' = i
            /\ events' = events
    /\ UNCHANGED <<control, slices, fsms, knobs,
                   nodes, servers, rafts, futures, j, others>>

Next ==
    \/ BuildNodes
    \/ ConnectStep
    \/ PopulateStep
    \/ KnobInitStep
    \/ NewRaftStep
    \/ CallOther
    \/ InvokeCleanup
    \/ ShutdownRequest
    \/ FutureError
    \/ KnobCleanupStep

Spec == Init /\ [][Next]_vars

(***************************************************************************)
(* connectLoobackTransports called twice on the same transports.           *)
(***************************************************************************)

\* A second call of connectLoobackTransports(transports), after the first
\* has returned.
ConnectAgain ==
    /\ pc = "populate"
    /\ FirstCall("connectAgain") = 0
    /\ pc' = "connect"
    /\ i' = 0
    /\ j' = 0
    /\ events' = Append(events, Log("connectAgain", Size(transports)))
    /\ UNCHANGED <<control, slices, fsms, knobs, nodes, servers, rafts,
                   futures, others>>

NextFabric ==
    \/ BuildNodes
    \/ ConnectStep
    \/ ConnectAgain

SpecFabric == Init /\ [][NextFabric]_vars

(***************************************************************************)
(* populatePeerStores called on slices of any two lengths.                 *)
(***************************************************************************)

\* The first k nodes, as a slice.
FirstNodes(k) == [x \in 0 .. k - 1 |-> x]

InitPopulate ==
    /\ pc = "populate"
    /\ fsms \in Slices(MaxN, FSMs)
    /\ knobs = <<>>
    /\ nodes = [x \in DOMAIN fsms |-> newNode(Itoa(x))]
    /\ stores \in {FirstNodes(k) : k \in 0 .. N}
    /\ transports \in {FirstNodes(k) : k \in 0 .. N}
    /\ servers = DOMAIN fsms
    /\ rafts = <<>>
    /\ futures = <<>>
    /\ i = 0
    /\ j = 0
    /\ events = <<>>
    /\ others = <<>>
    /\ wait = NoWait
    /\ engine = NoEngine

NextPopulate == PopulateStep

SpecPopulate == InitPopulate /\ [][NextPopulate]_vars

(***************************************************************************)
(* The control facility on a cluster Cluster has returned: Disconnect and  *)
(* Reconnect.                                                              *)
(***************************************************************************)

\* The addresses of the nodes other than a, by ascending index.
OtherAddrs(a) ==
    [x \in 1 .. N - 1 |-> Itoa(IF x - 1 < a THEN x - 1 ELSE x)]

\* The registry of transport a when every other transport is registered.
FullPeers(a) == {<<Itoa(b), b>> : b \in Indexes \ {a}}

\* The state in which Cluster returns when called without knobs.
ReturnedCluster ==
    /\ pc = "returned"
    /\ knobs = <<>>
    /\ nodes = [x \in DOMAIN fsms |->
                  [newNode(Itoa(x)) EXCEPT !.Peers = OtherAddrs(x),
                                           !.Transport.peers = FullPeers(x)]]
    /\ stores = FirstNodes(N)
    /\ transports = FirstNodes(N)
    /\ servers = DOMAIN fsms
    /\ rafts = [x \in DOMAIN fsms |-> newRaft(fsms[x], x)]
    /\ futures = <<>>
    /\ i = 0
    /\ j = 0
    /\ events = [x \in 1 .. N |-> Log("newRaft", x - 1)]
    /\ others = <<>>
    /\ wait = NoWait
    /\ engine = NoEngine

InitControl ==
    /\ fsms \in Slices(MaxN, FSMs)
    /\ ReturnedCluster

\* Transport a has transport b registered: a can send to b.
LinkUp(a, b) == <<Itoa(b), b>> \in nodes[a].Transport.peers

\* disconnect(a, b) removing only b from a's transport.
DisconnectPairOneWay(ns, a, b) ==
    [ns EXCEPT ![a].Transport.peers =
        {p \in @ : p[1] # LocalAddr(ns[b].Transport)}]

\* disconnect(a, b): removes b from a's transport and a from b's.
DisconnectPair(ns, a, b) ==
    [ns EXCEPT ![a].Transport.peers =
                  {p \in @ : p[1] # LocalAddr(ns[b].Transport)},
               ![b].Transport.peers =
                  {p \in @ : p[1] # LocalAddr(ns[a].Transport)}]

\* Disconnect(node): disconnect(node, b) for every peer b, from b on.
RECURSIVE DisconnectFrom(_, _, _)
DisconnectFrom(ns, a, b) ==
    IF b >= Size(ns) THEN ns
    ELSE DisconnectFrom(IF b # a THEN DisconnectPair(ns, a, b) ELSE ns,
                        a, b + 1)

\* Reconnect(node): the pair (node, b) connected as connectLoobackTransports
\* does, for every peer b, from b on.
RECURSIVE ReconnectFrom(_, _, _)
ReconnectFrom(ns, a, b) ==
    IF b >= Size(ns) THEN ns
    ELSE ReconnectFrom(IF ShouldConnect(a, b) THEN ConnectPair(ns, a, b)
                       ELSE ns,
                       a, b + 1)

\* The Disconnect and Reconnect calls so far.
OpsSeq == SelectSeq(events, LAMBDA e : e[1] \in {"Disconnect", "Reconnect"})

\* control.Disconnect(node).
Disconnect ==
    /\ pc = "returned"
    /\ Len(OpsSeq) < MaxOps
    /\ \E x \in Indexes :
          /\ nodes' = DisconnectFrom(nodes, x, 0)
          /\ events' = Append(events, Log("Disconnect", x))
    /\ UNCHANGED <<pc, control, slices, fsms, knobs, servers, rafts, futures,
                   i, j, others>>

\* control.Reconnect(node).
Reconnect ==
    /\ pc = "returned"
    /\ Len(OpsSeq) < MaxOps
    /\ \E x \in Indexes :
          /\ nodes' = ReconnectFrom(nodes, x, 0)
          /\ events' = Append(events, Log("Reconnect", x))
    /\ UNCHANGED <<pc, control, slices, fsms, knobs, servers, rafts, futures,
                   i, j, others>>

NextControl ==
    \/ Disconnect
    \/ Reconnect

SpecControl == InitControl /\ [][NextControl]_vars

(***************************************************************************)
(* The control facility: the blocking waits.  A wait polls what the engine *)
(* exposes, sleeping one poll interval between two polls, until its        *)
(* predicate holds or its timeout has elapsed.  Only the part of the       *)
(* engine the wait in progress polls is followed: the leader for the       *)
(* leadership waits, the polled counter of the waited node for the others. *)
(***************************************************************************)

LeaderKinds == {"WaitLeader", "LeadershipAcquired", "LeadershipLost"}

CounterKinds == {"WaitIndex", "WaitSnapshot", "WaitRestore"}

\* What a poll of the wait reads from the engine.
Observe(w) ==
    IF w.kind \in CounterKinds THEN engine.counter ELSE engine.leader

\* "At least", compared exactly.
ReachedExactly(value, target) == value = target

\* The counter waits are "at least" waits.
Reached(value, target) == value >= target

\* The predicate of the wait on the value a poll has read.
Satisfied(w, seen) ==
    CASE w.kind = "WaitLeader" -> seen = w.node
      [] w.kind = "LeadershipAcquired" -> seen # NoNode
      [] w.kind = "LeadershipLost" -> seen # w.node
      [] w.kind \in CounterKinds -> Reached(seen, w.target)
      [] OTHER -> FALSE

\* The deadline test one poll interval late.
TimedOutLate(w) == w.elapsed > w.timeout

\* The deadline test of a wait.
TimedOut(w) == w.elapsed >= w.timeout

\* The test starts a wait: WaitLeader(node), LeadershipAcquired(),
\* LeadershipLost(node), WaitIndex / WaitSnapshot / WaitRestore(node, target),
\* each with a timeout.
StartWait ==
    /\ pc = "returned"
    /\ wait.pc = "idle"
    /\ \E kind \in LeaderKinds \cup CounterKinds :
       \E node \in IF kind = "LeadershipAcquired" THEN {NoNode} ELSE Indexes :
       \E target \in IF kind \in CounterKinds THEN 1 .. MaxCount ELSE {0} :
       \E timeout \in 1 .. MaxTimeout :
          wait' = [kind |-> kind, node |-> node, target |-> target,
                   timeout |-> timeout, elapsed |-> 0, seen |-> 0,
                   pc |-> "poll"]
    /\ UNCHANGED <<pc, engine, slices, fsms, knobs, nodes, servers, rafts,
                   futures, i, j, events, others>>

\* One poll: read the engine, return when the predicate holds, fail the test
\* when the timeout has elapsed, sleep otherwise.
Poll ==
    /\ wait.pc = "poll"
    /\ LET seen == Observe(wait)
       IN  /\ wait' = [wait EXCEPT
                         !.seen = seen,
                         !.pc = IF Satisfied(wait, seen) THEN "returned"
                                ELSE IF TimedOut(wait) THEN "fatal"
                                ELSE "sleep"]
           /\ events' = IF ~Satisfied(wait, seen) /\ TimedOut(wait)
                        THEN Append(events, Log("FatalfWait", wait.node))
                        ELSE events
    /\ UNCHANGED <<pc, engine, slices, fsms, knobs, nodes, servers, rafts,
                   futures, i, j, others>>

\* The sleep of one poll interval between two polls.
Sleep ==
    /\ wait.pc = "sleep"
    /\ wait' = [wait EXCEPT !.elapsed = @ + 1, !.pc = "poll"]
    /\ UNCHANGED <<pc, engine, slices, fsms, knobs, nodes, servers, rafts,
                   futures, i, j, events, others>>

\* The engine applies an entry, takes a snapshot or restores one: the polled
\* counter grows.
EngineAdvance ==
    /\ pc = "returned"
    /\ wait.kind \notin LeaderKinds
    /\ engine.counter < MaxCount
    /\ engine' = [engine EXCEPT !.counter = @ + 1]
    /\ UNCHANGED <<pc, wait, slices, fsms, knobs, nodes, servers, rafts,
                   futures, i, j, events, others>>

\* The engine changes leader: a node acquires or loses leadership.
EngineElect ==
    /\ pc = "returned"
    /\ wait.kind \notin CounterKinds
    /\ \E x \in (Indexes \cup {NoNode}) \ {engine.leader} :
          engine' = [engine EXCEPT !.leader = x]
    /\ UNCHANGED <<pc, wait, slices, fsms, knobs, nodes, servers, rafts,
                   futures, i, j, events, others>>

InitWait ==
    /\ fsms \in Slices(MaxN, {"fsmA"})
    /\ ReturnedCluster

NextWait ==
    \/ StartWait
    \/ Poll
    \/ Sleep
    \/ EngineAdvance
    \/ EngineElect

\* The test goroutine runs: a wait in progress keeps polling and sleeping.
SpecWait ==
    InitWait /\ [][NextWait]_vars /\ WF_vars(Poll) /\ WF_vars(Sleep)

(***************************************************************************)
(* Properties                                                              *)
(***************************************************************************)

\* Cluster without knobs returns in the state the control facility starts in.
ReturnedAsModelled ==
    (pc = "returned" /\ M = 0 /\ others = <<>>) => ReturnedCluster

\* C1: init is called on each knob exactly once, in the order supplied, and
\* every knob's init has returned before the first raft instance is created.
C1_KnobInitBeforeEngines ==
    /\ Len(CallSeq("init")) <= M
    /\ Ascending("init")
    /\ pc \notin {"build", "connect", "populate", "init"}
          => Len(CallSeq("init")) = M
    /\ FirstCall("newRaft") # 0
          => /\ Len(CallSeq("init")) = M
             /\ LastCall("init") < FirstCall("newRaft")

C1_Witness ==
    /\ pc = "returned"
    /\ M >= 2
    /\ N >= 2
    /\ knobs[0] # knobs[1]

\* C2: in the cleanup closure every raft instance is shut down first; knob
\* cleanup runs only after all of them have finished shutting down, on every
\* knob, in the order the knobs were initialized.
C2_ShutdownBeforeKnobCleanup ==
    /\ Len(CallSeq("cleanup")) <= M
    /\ Ascending("cleanup")
    /\ \A x \in 1 .. Len(CallSeq("cleanup")) :
          CallSeq("cleanup")[x][2] = CallSeq("init")[x][2]
    /\ FirstCall("cleanup") # 0
          => /\ \A x \in Indexes :
                   rafts[x].state = "shutdown" /\ futures[x] = "done"
             /\ Len(CallSeq("Shutdown")) = N
             /\ LastCall("Shutdown") < FirstCall("cleanup")
             /\ LastCall("Error") < FirstCall("cleanup")
    /\ pc = "closed" => Len(CallSeq("cleanup")) = M

C2_Witness ==
    /\ pc = "closed"
    /\ M >= 2
    /\ N >= 2
    /\ knobs[0] # knobs[1]

\* C3: a successful Cluster call with N >= 1 FSMs and no knobs returns
\* exactly N running handles, the one at index x created from fsms[x] and
\* from node x's dependencies.
C3_HandlesAligned ==
    (pc = "returned" /\ M = 0 /\ N >= 1)
        => /\ DOMAIN rafts = Indexes
           /\ Cardinality(DOMAIN rafts) = N
           /\ \A x \in Indexes :
                 /\ rafts[x].state = "running"
                 /\ rafts[x].fsm = fsms[x]
                 /\ rafts[x].node = x
                 /\ rafts[x].addr = nodes[x].Transport.addr
                 /\ rafts[x].addr = Itoa(x)

C3_Witness ==
    /\ pc = "returned"
    /\ M = 0
    /\ N = 3
    /\ fsms[0] # fsms[1]
    /\ fsms[1] # fsms[2]

\* C4: with a Servers knob selecting a single node index, exactly one raft
\* instance is started (the selected one), the other nodes are never
\* started, and the selected node's configuration has exactly one server.
C4_OnlySelectedStarted ==
    (/\ pc = "returned"
     /\ M = 1
     /\ knobs[0].kind = "Servers"
     /\ Cardinality(knobs[0].indexes) = 1
     /\ knobs[0].indexes \subseteq Indexes)
        => /\ {x \in Indexes : rafts[x].state = "running"} = knobs[0].indexes
           /\ \A x \in Indexes \ knobs[0].indexes : rafts[x] = Nil
           /\ Cardinality(servers) = 1

\* C5: after connectLoobackTransports and before any knob is applied, every
\* transport has exactly the address and handle of every other transport
\* registered, and never its own.
C5_FabricComplete ==
    (pc = "populate" \/ (pc = "init" /\ i = 0))
        => \A a \in Indexes :
              /\ \A b \in Indexes \ {a} :
                    <<Itoa(b), b>> \in nodes[a].Transport.peers
              /\ \A p \in nodes[a].Transport.peers :
                    /\ p[1] # Itoa(a)
                    /\ p[2] # a
                    /\ p[2] \in Indexes
                    /\ p[1] = Itoa(p[2])

C5_Witness ==
    /\ pc = "init"
    /\ i = 0
    /\ N = 3
    /\ Cardinality(nodes[1].Transport.peers) = 2

\* C6: after populatePeerStores every node's peer list holds the address of
\* every other node exactly once, never its own, in ascending node order.
C6_PeersPopulated ==
    pc \notin {"build", "connect", "populate"}
        => \A a \in Indexes :
              /\ Len(nodes[a].Peers) = N - 1
              /\ \A x \in 1 .. N - 1 : nodes[a].Peers[x] = OtherAddrs(a)[x]
              /\ \A b \in Indexes \ {a} :
                    Cardinality({x \in 1 .. Len(nodes[a].Peers) :
                                    nodes[a].Peers[x] = Itoa(b)}) = 1
              /\ \A x \in 1 .. Len(nodes[a].Peers) :
                    nodes[a].Peers[x] # Itoa(a)

C6_Witness ==
    /\ pc = "init"
    /\ N = 3
    /\ nodes[1].Peers = <<"0", "2">>

\* The smallest element of a non-empty set of integers.
Min(S) == CHOOSE x \in S : \A y \in S : x <= y

C8_OtherSentinel ==
    \A c \in 1 .. Len(others) :
        /\ others[c][2] = -1 <=> Indexes \subseteq {others[c][1]}
        /\ others[c][2] # -1 => others[c][2] \in Indexes

C8_Witness ==
    /\ N = 1
    /\ Len(others) = 2
    /\ others[1] = <<0, -1>>
    /\ others[2] = <<1, 0>>

\* C9: when Shutdown fails the test, a shutdown has been requested on every
\* raft instance of the list before the failure was raised.
C9_AllShutdownBeforeFailure ==
    FirstCall("FatalfShutdown") # 0
        => /\ Len(CallSeq("Shutdown")) = N
           /\ Ascending("Shutdown")
           /\ LastCall("Shutdown") < FirstCall("FatalfShutdown")
           /\ \A x \in Indexes :
                 rafts[x].state = "shutdown" /\ futures[x] # "nil"

C9_Witness ==
    /\ pc = "shutdownFatal"
    /\ N = 3
    /\ futures[0] = "error"

\* C10: when newRaft fails for node x, Cluster ends at once with a fatal
\* failure naming x: no raft instance is created for a later node, and
\* neither handles nor cleanup closure are returned.
C10_FailedStartAborts ==
    FirstCall("FatalfStart") # 0
        => /\ pc = "setupFatal"
           /\ Len(CallSeq("FatalfStart")) = 1
           /\ events[Len(events)] = Log("FatalfStart", i)
           /\ events[Len(events) - 1] = Log("newRaft", i)
           /\ LastCall("newRaft") < FirstCall("FatalfStart")
           /\ \A x \in Indexes : x >= i => rafts[x] = Nil
           /\ FirstCall("cleanupClosure") = 0

C10_Witness ==
    /\ pc = "setupFatal"
    /\ N = 3
    /\ i = 1
    /\ rafts[0].state = "running"

\* Every transport has every other transport registered.
FabricFull ==
    \A a \in DOMAIN nodes :
        \A b \in Indexes \ {a} :
            /\ b \in DOMAIN nodes
            /\ <<Itoa(b), b>> \in nodes[a].Transport.peers

\* C16: the fabric is fully connected for all N endpoints before the first
\* peer store is populated, and the fabric and all N peer stores are complete
\* before the first knob's init is called.
C16_WiringBeforePeersBeforeKnobs ==
    /\ (\E a \in DOMAIN nodes : nodes[a].Peers # <<>>)
          => DOMAIN nodes = Indexes /\ FabricFull
    /\ pc = "populate" => DOMAIN nodes = Indexes /\ FabricFull
    /\ (pc = "init" \/ FirstCall("init") # 0)
          => /\ DOMAIN nodes = Indexes
             /\ FabricFull
             /\ \A a \in Indexes : Len(nodes[a].Peers) = N - 1

C16_Witness ==
    /\ pc = "init"
    /\ i = 1
    /\ N = 3
    /\ Len(nodes[2].Peers) = 2

\* C18: knob cleanup is invoked if and only if every instance's shutdown
\* completed without error: after an error the test is failed inside
\* Shutdown and no knob's cleanup is called.
C18_KnobCleanupIffCleanShutdown ==
    /\ (\E x \in DOMAIN futures : futures[x] = "error")
          => /\ pc = "shutdownFatal"
             /\ Len(CallSeq("cleanup")) = 0
    /\ FirstCall("FatalfShutdown") # 0 => Len(CallSeq("cleanup")) = 0
    /\ Len(CallSeq("cleanup")) > 0
          => \A x \in Indexes : futures[x] = "done"
    /\ (FirstCall("cleanupClosure") # 0
            /\ N >= 1
            /\ DOMAIN futures = Indexes
            /\ \A x \in Indexes : futures[x] = "done")
          => pc \in {"future", "cleanup", "closed"}
    /\ pc \in {"cleanup", "closed"}
          => \A x \in Indexes : futures[x] = "done"
    /\ pc = "closed" => Len(CallSeq("cleanup")) = M

C18_Witness ==
    /\ pc = "shutdownFatal"
    /\ M >= 1
    /\ N >= 2
    /\ futures[0] = "done"
    /\ futures[1] = "error"

\* C19: Shutdown fails the test exactly when a future reports an error; the
\* node named is the lowest index whose future reported one; the futures are
\* examined by ascending index and none after the first failing one.
C19_FirstFailingFutureNamed ==
    /\ FirstCall("FatalfShutdown") # 0
          <=> \E x \in DOMAIN futures : futures[x] = "error"
    /\ FirstCall("FatalfShutdown") # 0 <=> pc = "shutdownFatal"
    /\ Len(CallSeq("FatalfShutdown")) <= 1
    /\ Ascending("Error")
    /\ \A x \in DOMAIN futures :
          futures[x] = "error"
             => /\ CallSeq("FatalfShutdown")[1][2] = x
                /\ \A y \in DOMAIN futures :
                      /\ y < x => futures[y] = "done"
                      /\ y > x => futures[y] = "pending"
                /\ Len(CallSeq("Error")) = x + 1

C19_Witness ==
    /\ pc = "shutdownFatal"
    /\ N = 3
    /\ futures[0] = "done"
    /\ futures[1] = "error"
    /\ futures[2] = "pending"

\* C15: registering a pair that is already registered changes nothing: the
\* registry during and after a second run of connectLoobackTransports over
\* the same transports is the registry after the first run, and a repeated
\* registration inside one run leaves the registry as it is.
C15_ConnectIdempotent ==
    /\ [](FirstCall("connectAgain") # 0
             => \A a \in Indexes : nodes[a].Transport.peers = FullPeers(a))
    /\ [][(/\ pc = "connect"
           /\ i < N
           /\ i # j
           /\ <<Itoa(j), j>> \in nodes[i].Transport.peers
           /\ <<Itoa(i), i>> \in nodes[j].Transport.peers)
             => nodes' = nodes]_vars

C15_Witness ==
    /\ pc = "populate"
    /\ FirstCall("connectAgain") # 0
    /\ N = 3
    /\ nodes[0].Transport.peers = {<<"1", 1>>, <<"2", 2>>}

\* C17: with peer stores and transports of different lengths,
\* populatePeerStores panics (no test failure is reported) before it reads
\* or writes any peer store; every peer store is left as it was.
C17_MismatchPanicsFirst ==
    /\ Size(stores) # Size(transports)
          => /\ pc \in {"populate", "panic"}
             /\ i = 0
             /\ j = 0
             /\ \A x \in DOMAIN nodes : nodes[x].Peers = <<>>
             /\ events = <<>>
    /\ pc = "panic" => Size(stores) # Size(transports)

C17_Witness ==
    /\ pc = "panic"
    /\ Size(stores) = 2
    /\ Size(transports) = 3
    /\ \A x \in DOMAIN nodes : nodes[x].Peers = <<>>

\* C12: Disconnect(node) removes both directions of the link between the
\* node and every peer and leaves the links between other nodes as they
\* were: from the full fabric, no peer can send to the node or receive from
\* it, and every other pair still can.
C12_DisconnectIsolatesNode ==
    /\ [][\A x \in Indexes :
             events' = Append(events, Log("Disconnect", x))
                => /\ nodes'[x].Transport.peers = {}
                   /\ \A a \in Indexes \ {x} :
                         nodes'[a].Transport.peers =
                            nodes[a].Transport.peers \ {<<Itoa(x), x>>}
                   /\ \A a \in Indexes : nodes'[a].Peers = nodes[a].Peers]_vars
    /\ [](\A x \in Indexes :
             OpsSeq = <<Log("Disconnect", x)>>
                => \A a, b \in Indexes \ {x} : a # b => LinkUp(a, b))
    /\ [](\A x \in Indexes :
             (Len(OpsSeq) > 0 /\ OpsSeq[Len(OpsSeq)] = Log("Disconnect", x))
                => \A b \in Indexes \ {x} : ~LinkUp(x, b) /\ ~LinkUp(b, x))

C12_Witness ==
    /\ N = 3
    /\ OpsSeq = <<Log("Disconnect", 1)>>
    /\ LinkUp(0, 2)
    /\ LinkUp(2, 0)
    /\ ~LinkUp(0, 1)
    /\ ~LinkUp(1, 0)

\* C13: from the fully connected fabric, Disconnect(node) followed by
\* Reconnect(node) leaves the fabric fully connected again, both directions
\* of every link of the node restored.
C13_ReconnectUndoesDisconnect ==
    \A x \in Indexes :
        OpsSeq = <<Log("Disconnect", x), Log("Reconnect", x)>>
           => /\ \A a \in Indexes : nodes[a].Transport.peers = FullPeers(a)
              /\ \A b \in Indexes \ {x} : LinkUp(x, b) /\ LinkUp(b, x)
              /\ \A a \in Indexes : nodes[a].Peers = OtherAddrs(a)

C13_Witness ==
    /\ N = 3
    /\ OpsSeq = <<Log("Disconnect", 1), Log("Reconnect", 1)>>
    /\ LinkUp(1, 0)
    /\ LinkUp(2, 1)

Waiting == wait.pc \in {"poll", "sleep"}

\* C11: WaitIndex(node, K, timeout) never returns while the applied index
\* is below K; the applied index only grows, so every poll made once it is
\* at least K returns, whatever happened between two polls, and the wait
\* then does return.
C11_WaitIndexAtLeast ==
    /\ []((wait.kind = "WaitIndex" /\ wait.pc = "returned")
             => engine.counter >= wait.target /\ wait.seen >= wait.target)
    /\ [][engine'.counter >= engine.counter]_vars
    /\ [][(/\ wait.kind = "WaitIndex"
           /\ wait.pc = "poll"
           /\ engine.counter >= wait.target
           /\ wait' # wait)
             => wait'.pc = "returned"]_vars
    /\ (wait.kind = "WaitIndex" /\ Waiting /\ engine.counter >= wait.target)
          ~> (wait.pc = "returned")

C11_Witness ==
    /\ wait.kind = "WaitIndex"
    /\ wait.pc = "returned"
    /\ wait.target = 1
    /\ wait.seen = 2
    /\ wait.elapsed = 1

\* C14: every blocking wait ends: it returns with its predicate satisfied,
\* or fails the test when its timeout has elapsed with the predicate
\* unsatisfied; it never returns with the predicate unsatisfied and never
\* waits past its timeout.
C14_WaitsEnd ==
    /\ [](wait.pc = "returned" => Satisfied(wait, wait.seen))
    /\ [](wait.pc = "fatal"
             => /\ wait.elapsed >= wait.timeout
                /\ ~Satisfied(wait, wait.seen)
                /\ events[Len(events)] = Log("FatalfWait", wait.node))
    /\ [](wait.elapsed <= wait.timeout)
    /\ [](FirstCall("FatalfWait") # 0 => wait.pc = "fatal")
    /\ [][wait.pc \in {"returned", "fatal"} => wait' = wait]_vars
    /\ Waiting ~> (wait.pc \in {"returned", "fatal"})

C14_Witness ==
    /\ wait.kind = "LeadershipLost"
    /\ wait.pc = "fatal"
    /\ wait.node = 1
    /\ wait.timeout = 2
    /\ wait.elapsed = 2
    /\ engine.leader = 1

====
